---- MODULE Spec2Model ----
(***************************************************************************)
(* Vehicle (packages/web/src/cesium/vehicles/Vehicle.ts): the lifecycle of *)
(* a vehicle's model primitive (initialize / ready event / livery timer /  *)
(* setState / destroy) and the model-matrix synchronisation, and the Vite  *)
(* base-path normalisation of the build configuration.                     *)
(*                                                                         *)
(* JavaScript runs each handler to completion, so every action below is    *)
(* one synchronous run: a call, the continuation of an await, an event     *)
(* listener or a timer callback.                                           *)
(***************************************************************************)
EXTENDS Integers, Sequences, FiniteSets, TLC

VARIABLES
    config,      \* Vehicle.config, per vehicle (readonly after construction)
    position,    \* Vehicle.position
    hpRoll,      \* Vehicle.hpRoll
    velocity,    \* Vehicle.velocity
    speed,       \* Vehicle.speed
    isReady,     \* Vehicle.isReady
    primitive,   \* Vehicle.primitive: a model id, or NULL
    sceneRef,    \* Vehicle.sceneRef: TRUE once a scene has been stored
    scratchHPR,  \* Vehicle.scratchHPR, static, shared by all vehicles
    models,      \* every Cesium.Model asked for by fromGltfAsync, by id
    timers,      \* pending setTimeout callbacks of applyTapLivery, per vehicle
    destroyed,   \* history: destroy() returned and initialize() was not called since
    lastRun,     \* history: the handler that ran last and what it saw or did
    uncaught,    \* history: an exception left a handler
    env,         \* loadEnv(...).VITE_BASE_PATH
    base,        \* the base handed to Vite
    pc           \* position of the configuration function

vars == <<config, position, hpRoll, velocity, speed, isReady, primitive, sceneRef, scratchHPR,
          models, timers, destroyed, lastRun, uncaught, env, base, pc>>

vehicleVars == <<config, position, hpRoll, velocity, speed, isReady, primitive, sceneRef,
                 scratchHPR, models, timers, destroyed, lastRun, uncaught>>

baseVars == <<env, base, pc>>

-----------------------------------------------------------------------------
(* Bounds *)

\* initialize() calls in one run (each asks for one model)
MaxLoads == 2
\* length of a VITE_BASE_PATH value
MaxLen == 3

-----------------------------------------------------------------------------
(* Values *)

\* primitive: Cesium.Model | null = null
NULL == 0

\* an optional field of a config or of a glTF object: <<>> when absent
None == <<>>
Some(x) == <<x>>
IsSome(o) == Len(o) > 0
Get(o) == o[1]

\* the VehicleState values setState is called with (angles in half turns)
VehicleStates ==
    { [position |-> 0, heading |-> 0, pitch |-> 0, roll |-> 0,
       velocity |-> 0, speed |-> 0],
      [position |-> 1, heading |-> 1, pitch |-> 0, roll |-> 1,
       velocity |-> 2, speed |-> 3] }

\* Cesium.Transforms.headingPitchRollToFixedFrame(origin, hpr, WGS84): a frame
\* at origin rotated by hpr. Angles are in half turns, and a rotation by a full
\* turn is no rotation.
HeadingPitchRollToFixedFrame(origin, hpr) ==
    [origin |-> origin,
     h |-> hpr.heading % 2,
     p |-> hpr.pitch % 2,
     r |-> hpr.roll % 2]

-----------------------------------------------------------------------------
(* Colours and the glTF scene graph the livery pass walks *)

\* one colour channel is an integer number of 1/ColorUnit
ColorUnit == 255 * 25

Color(r, g, b, a) == <<r, g, b, a>>
FromBytes(r, g, b) == Color(r * 25, g * 25, b * 25, ColorUnit)

\* Cesium.Color.WHITE
White == FromBytes(255, 255, 255)
\* Cesium.Color.fromCssColorString('#d4002a'): d4 = 212, 00 = 0, 2a = 42
TapRed == FromBytes(13 * 16 + 4, 0, 2 * 16 + 10)
Grey == FromBytes(100, 100, 100)
Blue == FromBytes(0, 0, 255)

\* Cesium.Color.lerp(start, end, t, result), t in tenths:
\* every channel is (1 - t) * start + t * end
Lerp(start, end, tenths) ==
    [i \in 1..4 |-> start[i] + ((end[i] - start[i]) * tenths) \div 10]

\* String.prototype.toLowerCase, on the letters the names use
UpperCase == <<"A", "B", "C", "E", "F", "I", "L", "N", "R", "S", "T", "V", "Z">>
LowerCase == <<"a", "b", "c", "e", "f", "i", "l", "n", "r", "s", "t", "v", "z">>
ToLowerCaseChar(c) ==
    IF \E i \in DOMAIN UpperCase : UpperCase[i] = c
    THEN LowerCase[CHOOSE i \in DOMAIN UpperCase : UpperCase[i] = c]
    ELSE c
ToLowerCase(s) == [i \in DOMAIN s |-> ToLowerCaseChar(s[i])]

\* String.prototype.includes
Includes(s, sub) ==
    \E i \in 0..(Len(s) - Len(sub)) : SubSeq(s, i + 1, i + Len(sub)) = sub

\* String.prototype.endsWith
EndsWith(s, suffix) ==
    /\ Len(s) >= Len(suffix)
    /\ SubSeq(s, Len(s) - Len(suffix) + 1, Len(s)) = suffix

\* the characters of a node name
Chars(name) ==
    CASE name = "" -> <<>>
      [] name = "Fuse" -> <<"F", "u", "s", "e">>
      [] name = "Tail_Fin" -> <<"T", "a", "i", "l", "_", "F", "i", "n">>
      [] name = "VERTICAL" -> <<"V", "E", "R", "T", "I", "C", "A", "L">>
      [] name = "fin" -> <<"f", "i", "n">>
      [] name = "fi" -> <<"f", "i">>
      [] name = "STABILIZER" -> <<"S", "T", "A", "B", "I", "L", "I", "Z", "E", "R">>
      [] name = "bad" -> <<"b", "a", "d">>
      [] name = "body" -> <<"b", "o", "d", "y">>
      [] name = "hull" -> <<"h", "u", "l", "l">>

\* a material: material.uniforms may be missing, and so may each of
\* uniforms.baseColor and uniforms.diffuse (both None without uniforms)
Material(hasUniforms, baseColor, diffuse) ==
    [uniforms |-> hasUniforms, baseColor |-> baseColor, diffuse |-> diffuse]

\* a node: name ("" when it has none), mesh ("none": no mesh, "noPrimitives":
\* a mesh without primitives, "notIterable": mesh.primitives is not iterable,
\* "list": an array of primitives, each with an optional material) and children
\* (node ids, NULL for a null entry; isArray is Array.isArray(node.children))
Node(name, mesh, prims, isArray, children) ==
    [name |-> name, mesh |-> mesh, primitives |-> prims,
     childrenIsArray |-> isArray, children |-> children]

\* model.sceneGraph: absent, or a graph with an optional root
NoSceneGraph == [present |-> FALSE, root |-> NULL, nodes |-> <<>>]
RootlessSceneGraph == [present |-> TRUE, root |-> NULL, nodes |-> <<>>]

\* a node without a name -> (Fuse -> VERTICAL, whose children are no array),
\* Tail_Fin and a null child
AirlinerSceneGraph ==
    [present |-> TRUE, root |-> 1, nodes |-> <<
        Node("", "list",
             <<Some(Material(TRUE, Some(Blue), None))>>, TRUE, <<2, 3, NULL>>),
        Node("Fuse", "list",
             <<Some(Material(TRUE, Some(Grey), None)),
               Some(Material(TRUE, None, Some(Blue))),
               None>>,
             TRUE, <<4>>),
        Node("Tail_Fin", "list",
             <<Some(Material(TRUE, Some(Grey), Some(Blue))),
               Some(Material(TRUE, None, Some(Blue))),
               Some(Material(FALSE, None, None))>>,
             TRUE, <<>>),
        Node("VERTICAL", "list",
             <<Some(Material(TRUE, Some(Blue), None))>>, FALSE, <<5>>),
        Node("fin", "list",
             <<Some(Material(TRUE, Some(Grey), None))>>, TRUE, <<>>) >>]

\* "fi" (no tail part) -> STABILIZER, a mesh that cannot be iterated, body
BrokenSceneGraph ==
    [present |-> TRUE, root |-> 1, nodes |-> <<
        Node("fi", "list",
             <<Some(Material(TRUE, Some(Grey), None))>>, TRUE, <<2, 3, 4>>),
        Node("STABILIZER", "list",
             <<Some(Material(TRUE, Some(Grey), None))>>, TRUE, <<>>),
        Node("bad", "notIterable", <<>>, TRUE, <<>>),
        Node("body", "list",
             <<Some(Material(TRUE, Some(Grey), None))>>, TRUE, <<>>) >>]

\* a mesh without primitives above a fin
SmallSceneGraph ==
    [present |-> TRUE, root |-> 1, nodes |-> <<
        Node("hull", "noPrimitives", <<>>, TRUE, <<2>>),
        Node("fin", "list",
             <<Some(Material(TRUE, Some(Blue), None)),
               Some(Material(TRUE, None, None))>>, TRUE, <<>>) >>]

\* the scene graph of the model each modelUrl loads
SceneGraphOf(url) ==
    CASE url = "plain.glb" -> NoSceneGraph
      [] url = "bare.glb" -> RootlessSceneGraph
      [] url = "airliner.glb" -> AirlinerSceneGraph
      [] url = "broken.glb" -> BrokenSceneGraph
      [] url = "small.glb" -> SmallSceneGraph

-----------------------------------------------------------------------------
(* applyTapLivery: the traversal run by the timer callback *)

\* isTailPart of processNode
IsTailPart(node) ==
    LET nodeName == ToLowerCase(Chars(node.name))
    IN  \/ Includes(nodeName, <<"t", "a", "i", "l">>)
        \/ Includes(nodeName, <<"f", "i", "n">>)
        \/ Includes(nodeName, <<"v", "e", "r", "t", "i", "c", "a", "l">>)
        \/ Includes(nodeName, <<"s", "t", "a", "b", "i", "l", "i", "z", "e", "r">>)

\* CustomizeMaterial with the colours handed to Color.lerp in the wrong order
CustomizeMaterialLerpSwapped(isTailPart, material) ==
    IF isTailPart /\ material.uniforms
    THEN IF IsSome(material.baseColor)
         THEN [material EXCEPT !.baseColor = Some(TapRed)]
         ELSE IF IsSome(material.diffuse)
              THEN [material EXCEPT !.diffuse = Some(TapRed)]
              ELSE material
    ELSE IF ~isTailPart /\ material.uniforms
         THEN IF IsSome(material.baseColor)
              THEN [material EXCEPT
                      !.baseColor = Some(Lerp(White, Get(material.baseColor), 2))]
              ELSE material
         ELSE material

\* the body of the loop over node.mesh.primitives, for one material
CustomizeMaterial(isTailPart, material) ==
    IF isTailPart /\ material.uniforms
    THEN IF IsSome(material.baseColor)
         THEN [material EXCEPT !.baseColor = Some(TapRed)]
         ELSE IF IsSome(material.diffuse)
              THEN [material EXCEPT !.diffuse = Some(TapRed)]
              ELSE material
    ELSE IF ~isTailPart /\ material.uniforms
         THEN IF IsSome(material.baseColor)
              THEN [material EXCEPT
                      !.baseColor = Some(Lerp(Get(material.baseColor), White, 2))]
              ELSE material
         ELSE material

\* the loop over node.mesh.primitives
CustomizePrimitives(node) ==
    [i \in DOMAIN node.primitives |->
        IF IsSome(node.primitives[i])
        THEN Some(CustomizeMaterial(IsTailPart(node), Get(node.primitives[i])))
        ELSE None]

\* the children processNode recurses into
ChildrenToProcess(node) ==
    IF node.childrenIsArray THEN node.children ELSE <<>>

\* processNode(node) on the traversal state st = [nodes, visited, threw], and
\* the loop over the children from the k-th on. An exception ends the traversal.
RECURSIVE ProcessNode(_, _)
RECURSIVE ProcessChildren(_, _, _)
ProcessNode(st, n) ==
    IF st.threw \/ n = NULL
    THEN st
    ELSE LET node == st.nodes[n]
             seen == [st EXCEPT !.visited = @ \cup {n}]
         IN  IF node.mesh = "notIterable"
             THEN [seen EXCEPT !.threw = TRUE]
             ELSE LET done ==
                          IF node.mesh = "list"
                          THEN [seen EXCEPT
                                  !.nodes[n].primitives = CustomizePrimitives(node)]
                          ELSE seen
                  IN  ProcessChildren(done, ChildrenToProcess(node), 1)
ProcessChildren(st, children, k) ==
    IF st.threw \/ k > Len(children)
    THEN st
    ELSE ProcessChildren(ProcessNode(st, children[k]), children, k + 1)

\* EscapesCallback without the try/catch
EscapesCallbackUncaught(threw) == threw

\* whether an exception thrown in the timer callback leaves it
\* (the try/catch around the whole callback catches everything)
EscapesCallback(threw) == FALSE

\* the timer callback on the scene graph of the vehicle's primitive;
\* sceneGraph is None when the vehicle holds no primitive
LiveryPass(sceneGraph) ==
    IF ~IsSome(sceneGraph)
    THEN [outcome |-> "noPrimitive", graph |-> NoSceneGraph, visited |-> {}]
    ELSE LET g == Get(sceneGraph)
         IN  IF ~g.present \/ g.root = NULL
             THEN [outcome |-> "noSceneGraph", graph |-> g, visited |-> {}]
             ELSE LET st == ProcessNode(
                                [nodes |-> g.nodes, visited |-> {}, threw |-> FALSE],
                                g.root)
                  IN  [outcome |-> IF st.threw THEN "threw" ELSE "done",
                       graph |-> [g EXCEPT !.nodes = st.nodes],
                       visited |-> st.visited]

-----------------------------------------------------------------------------
(* Vehicle *)

Vehicles == DOMAIN config

\* x || 0 on an optional number
OrZero(o) == IF IsSome(o) THEN Get(o) ELSE 0

\* this.modelHeadingOffset, set once by the constructor
ModelHeadingOffset(v) == OrZero(config[v].modelHeadingOffset)

\* a VehicleConfig
VehicleConfig(url, pos, pitch, offset, color, blendMode, blendAmount, isTap) ==
    [modelUrl |-> url, position |-> pos,
     heading |-> None, pitch |-> pitch, roll |-> None,
     modelHeadingOffset |-> offset,
     modelColor |-> color, modelColorBlendMode |-> blendMode,
     modelColorBlendAmount |-> blendAmount, isTapVariant |-> isTap]

\* a Cesium.Model before any override: no color, HIGHLIGHT, 0.5
\* (colorBlendAmount in tenths)
DefaultAppearance ==
    [color |-> None, colorBlendMode |-> "HIGHLIGHT", colorBlendAmount |-> 5]

\* the model fromGltfAsync is asked for. phase: "loading" while the promise is
\* pending, "failed" once it rejected, "loaded" from scene.primitives.add on,
\* "removed" once scene.primitives.remove took the model out of the scene
NewModel(v, modelMatrix) ==
    [owner |-> v, modelMatrix |-> modelMatrix,
     phase |-> "loading", readyFired |-> FALSE,
     appearance |-> DefaultAppearance,
     sceneGraph |-> SceneGraphOf(config[v].modelUrl)]

\* a model that no longer exists: its load failed, or PrimitiveCollection.remove
\* destroyed it. Nothing reads its fields any more.
Gone(model, phase) ==
    [owner |-> model.owner,
     modelMatrix |-> HeadingPitchRollToFixedFrame(0, [heading |-> 0, pitch |-> 0, roll |-> 0]),
     phase |-> phase, readyFired |-> FALSE,
     appearance |-> DefaultAppearance,
     sceneGraph |-> NoSceneGraph]

\* the model is in scene.primitives
InScene(model) == model.phase = "loaded"

\* the state after the constructor ran for every vehicle of cfg
Constructed(cfg) ==
    /\ config = cfg
    /\ position = [v \in DOMAIN cfg |-> cfg[v].position]
    /\ hpRoll = [v \in DOMAIN cfg |->
                   [heading |-> OrZero(cfg[v].heading),
                    pitch |-> OrZero(cfg[v].pitch),
                    roll |-> OrZero(cfg[v].roll)]]
    /\ velocity = [v \in DOMAIN cfg |-> 0]
    /\ speed = [v \in DOMAIN cfg |-> 0]
    /\ isReady = [v \in DOMAIN cfg |-> FALSE]
    /\ primitive = [v \in DOMAIN cfg |-> NULL]
    /\ sceneRef = [v \in DOMAIN cfg |-> FALSE]
    /\ scratchHPR = [heading |-> 0, pitch |-> 0, roll |-> 0]
    /\ models = <<>>
    /\ timers = [v \in DOMAIN cfg |-> 0]
    /\ destroyed = [v \in DOMAIN cfg |-> FALSE]
    /\ lastRun = [handler |-> "none"]
    /\ uncaught = FALSE

\* InitializeScratch that leaves the scratch object as the last writer left it
InitializeScratchStale(v) == scratchHPR

\* Vehicle.scratchHPR as initialize() fills it
InitializeScratch(v) ==
    [heading |-> hpRoll[v].heading + ModelHeadingOffset(v),
     pitch |-> hpRoll[v].pitch,
     roll |-> hpRoll[v].roll]

\* initialize(scene), up to the await: the model matrix is computed from the
\* scratch object before fromGltfAsync is called
Initialize(v) ==
    /\ Len(models) < MaxLoads
    /\ sceneRef' = [sceneRef EXCEPT ![v] = TRUE]
    /\ scratchHPR' = InitializeScratch(v)
    /\ models' = Append(models,
                   NewModel(v, HeadingPitchRollToFixedFrame(position[v], scratchHPR')))
    /\ destroyed' = [destroyed EXCEPT ![v] = FALSE]
    /\ lastRun' = [handler |-> "initialize", vehicle |-> v, model |-> Len(models')]
    /\ UNCHANGED <<config, position, hpRoll, velocity, speed, isReady, primitive, timers, uncaught>>
    /\ UNCHANGED baseVars

\* initialize(scene), after the await resolved: scene.primitives.add and
\* readyEvent.addEventListener
LoadResolved(m) ==
    /\ models[m].phase = "loading"
    /\ models' = [models EXCEPT ![m].phase = "loaded"]
    /\ primitive' = [primitive EXCEPT ![models[m].owner] = m]
    /\ lastRun' = [handler |-> "other"]
    /\ UNCHANGED <<config, position, hpRoll, velocity, speed, isReady, sceneRef, scratchHPR,
                   timers, destroyed, uncaught>>
    /\ UNCHANGED baseVars

\* initialize(scene), after the await rejected: the catch block logs
LoadRejected(m) ==
    /\ models[m].phase = "loading"
    /\ models' = [models EXCEPT ![m] = Gone(@, "failed")]
    /\ lastRun' = [handler |-> "other"]
    /\ UNCHANGED <<config, position, hpRoll, velocity, speed, isReady, primitive, sceneRef,
                   scratchHPR, timers, destroyed, uncaught>>
    /\ UNCHANGED baseVars

\* ApplyOverrides with the blend amount tested for truthiness
ApplyOverridesTruthyAmount(cfg, appearance) ==
    IF IsSome(cfg.modelColor)
    THEN [color |-> cfg.modelColor,
          colorBlendMode |->
              IF IsSome(cfg.modelColorBlendMode)
              THEN Get(cfg.modelColorBlendMode)
              ELSE appearance.colorBlendMode,
          colorBlendAmount |->
              IF IsSome(cfg.modelColorBlendAmount) /\ Get(cfg.modelColorBlendAmount) # 0
              THEN Get(cfg.modelColorBlendAmount)
              ELSE appearance.colorBlendAmount]
    ELSE appearance

\* applyModelAppearance, the color overrides, on the appearance of the
\* vehicle's primitive
ApplyOverrides(cfg, appearance) ==
    IF IsSome(cfg.modelColor)
    THEN [color |-> cfg.modelColor,
          colorBlendMode |->
              IF IsSome(cfg.modelColorBlendMode)
              THEN Get(cfg.modelColorBlendMode)
              ELSE appearance.colorBlendMode,
          colorBlendAmount |->
              IF IsSome(cfg.modelColorBlendAmount)
              THEN Get(cfg.modelColorBlendAmount)
              ELSE appearance.colorBlendAmount]
    ELSE appearance

\* what onModelReady can observe of its vehicle
Observed(v, m, ms, ready) ==
    [handler |-> "onModelReady", vehicle |-> v, model |-> m,
     isReady |-> ready, primitive |-> primitive[v],
     appearance |-> IF primitive[v] = NULL
                    THEN DefaultAppearance
                    ELSE ms[primitive[v]].appearance]

\* ReadyListener with onModelReady() called before the other two statements
ReadyListenerHookFirst(v, m, ms) ==
    LET p == primitive[v]
        applied == IF p = NULL
                   THEN ms
                   ELSE [ms EXCEPT ![p].appearance = ApplyOverrides(config[v], @)]
        armed == IF p # NULL /\ config[v].isTapVariant THEN 1 ELSE 0
    IN  [models |-> applied,
         timers |-> armed,
         isReady |-> TRUE,
         seen |-> Observed(v, m, ms, isReady[v])]

\* the readyEvent listener of vehicle v, fired by model m, on the models ms:
\* applyModelAppearance(), isReady = true, onModelReady()
ReadyListener(v, m, ms) ==
    LET p == primitive[v]
        applied == IF p = NULL
                   THEN ms
                   ELSE [ms EXCEPT ![p].appearance = ApplyOverrides(config[v], @)]
        armed == IF p # NULL /\ config[v].isTapVariant THEN 1 ELSE 0
    IN  [models |-> applied,
         timers |-> armed,
         isReady |-> TRUE,
         seen |-> Observed(v, m, applied, TRUE)]

\* the model raises readyEvent: Cesium raises it once, from the update of a
\* model that is in the scene's primitives
ReadyEvent(m) ==
    /\ InScene(models[m])
    /\ ~models[m].readyFired
    /\ LET v == models[m].owner
           r == ReadyListener(v, m, [models EXCEPT ![m].readyFired = TRUE])
       IN  /\ models' = r.models
           /\ timers' = [timers EXCEPT ![v] = @ + r.timers]
           /\ isReady' = [isReady EXCEPT ![v] = r.isReady]
           /\ lastRun' = r.seen
    /\ UNCHANGED <<config, position, hpRoll, velocity, speed, primitive, sceneRef, scratchHPR,
                   destroyed, uncaught>>
    /\ UNCHANGED baseVars

\* the setTimeout callback of applyTapLivery
LiveryTimer(v) ==
    /\ timers[v] > 0
    /\ timers' = [timers EXCEPT ![v] = @ - 1]
    /\ LET p == primitive[v]
           before == IF p = NULL THEN None ELSE Some(models[p].sceneGraph)
           pass == LiveryPass(before)
       IN  /\ models' = IF p = NULL
                        THEN models
                        ELSE [models EXCEPT ![p].sceneGraph = pass.graph]
           /\ lastRun' = [handler |-> "livery", vehicle |-> v, model |-> p,
                          outcome |-> pass.outcome, before |-> before,
                          visited |-> pass.visited]
           /\ uncaught' = (uncaught \/ EscapesCallback(pass.outcome = "threw"))
    /\ UNCHANGED <<config, position, hpRoll, velocity, speed, isReady, primitive, sceneRef,
                   scratchHPR, destroyed>>
    /\ UNCHANGED baseVars

\* Vehicle.scratchHPR as updateModelMatrix() fills it, from the orientation hp
UpdateScratch(v, hp) ==
    [heading |-> hp.heading + ModelHeadingOffset(v),
     pitch |-> hp.pitch,
     roll |-> hp.roll]

\* setState(state), with its call of updateModelMatrix()
SetState(v, state) ==
    /\ position' = [position EXCEPT ![v] = state.position]
    /\ hpRoll' = [hpRoll EXCEPT ![v] = [heading |-> state.heading,
                                         pitch |-> state.pitch,
                                         roll |-> state.roll]]
    /\ velocity' = [velocity EXCEPT ![v] = state.velocity]
    /\ speed' = [speed EXCEPT ![v] = state.speed]
    /\ IF primitive[v] # NULL
       THEN /\ scratchHPR' = UpdateScratch(v, hpRoll'[v])
            /\ models' = [models EXCEPT ![primitive[v]].modelMatrix =
                            HeadingPitchRollToFixedFrame(position'[v], scratchHPR')]
       ELSE UNCHANGED <<scratchHPR, models>>
    /\ lastRun' = [handler |-> "other"]
    /\ UNCHANGED <<config, isReady, primitive, sceneRef, timers, destroyed,
                   uncaught>>
    /\ UNCHANGED baseVars

\* destroy()
Destroy(v) ==
    /\ IF primitive[v] # NULL
       THEN /\ models' = IF sceneRef[v]
                         THEN [models EXCEPT ![primitive[v]] = Gone(@, "removed")]
                         ELSE models
            /\ primitive' = [primitive EXCEPT ![v] = NULL]
            /\ isReady' = [isReady EXCEPT ![v] = FALSE]
       ELSE UNCHANGED <<models, primitive, isReady>>
    /\ destroyed' = [destroyed EXCEPT ![v] = TRUE]
    /\ lastRun' = [handler |-> "other"]
    /\ UNCHANGED <<config, position, hpRoll, velocity, speed, sceneRef, scratchHPR, timers,
                   uncaught>>
    /\ UNCHANGED baseVars

Next ==
    \/ \E v \in Vehicles : Initialize(v)
    \/ \E m \in DOMAIN models : LoadResolved(m)
    \/ \E m \in DOMAIN models : LoadRejected(m)
    \/ \E m \in DOMAIN models : ReadyEvent(m)
    \/ \E v \in Vehicles : LiveryTimer(v)
    \/ \E v \in Vehicles, state \in VehicleStates : SetState(v, state)
    \/ \E v \in Vehicles : Destroy(v)

-----------------------------------------------------------------------------
(* The Vite configuration: base *)

\* the characters a VITE_BASE_PATH value is made of
PathChars == {"/", "a", "."}

\* the strings of at most n characters
RECURSIVE PathsUpTo(_)
PathsUpTo(n) ==
    IF n = 0
    THEN {<<>>}
    ELSE LET shorter == PathsUpTo(n - 1)
         IN  shorter \cup { Append(s, c) : s \in shorter, c \in PathChars }

\* env.VITE_BASE_PATH || '/': unset and '' are both falsy
RawBase(value) ==
    IF IsSome(value) /\ Get(value) # <<>> THEN Get(value) ELSE <<"/">>

\* NormalizeBase without the endsWith test
NormalizeBaseAlwaysAppend(rawBase) ==
    IF rawBase = <<"/">> THEN <<"/">> ELSE rawBase \o <<"/">>

\* rawBase === '/' ? '/' : rawBase.endsWith('/') ? rawBase : `${rawBase}/`
NormalizeBase(rawBase) ==
    IF rawBase = <<"/">>
    THEN <<"/">>
    ELSE IF EndsWith(rawBase, <<"/">>)
         THEN rawBase
         ELSE rawBase \o <<"/">>

\* no configuration function runs while the vehicles are flown
BaseIdle ==
    /\ env = None
    /\ base = <<>>
    /\ pc = "idle"

\* the function given to defineConfig runs on the environment
DefineConfig ==
    /\ pc = "start"
    /\ base' = NormalizeBase(RawBase(env))
    /\ pc' = "built"
    /\ UNCHANGED env
    /\ UNCHANGED vehicleVars

\* the resulting base is deployed as VITE_BASE_PATH and the function runs again
Rebuild ==
    /\ pc = "built"
    /\ env' = Some(base)
    /\ base' = NormalizeBase(RawBase(env'))
    /\ pc' = "rebuilt"
    /\ UNCHANGED vehicleVars

NextBase ==
    \/ DefineConfig
    \/ Rebuild

InitBase ==
    /\ Constructed(<<>>)
    /\ env \in {None} \cup { Some(s) : s \in PathsUpTo(MaxLen) }
    /\ base = <<>>
    /\ pc = "start"

SpecBase == InitBase /\ [][NextBase]_vars

\* one vehicle, in the configurations the appearance code distinguishes
SingleConfigs ==
    { <<VehicleConfig("airliner.glb", 0, None, Some(1),
                      Some(TapRed), Some("MIX"), Some(10), TRUE)>>,
      <<VehicleConfig("broken.glb", 1, Some(1), None,
                      Some(White), None, None, TRUE)>>,
      <<VehicleConfig("bare.glb", 0, None, None,
                      None, Some("REPLACE"), Some(10), TRUE)>>,
      <<VehicleConfig("small.glb", 0, Some(1), Some(1),
                      None, None, Some(0), TRUE)>>,
      <<VehicleConfig("airliner.glb", 1, None, None,
                      Some(White), None, Some(0), FALSE)>> }

\* two vehicles flown together; the first is a TAP variant
FleetConfigs ==
    { <<VehicleConfig("plain.glb", 0, None, Some(1), None, None, None, TRUE),
        VehicleConfig("plain.glb", 1, None, None, None, None, None, FALSE)>> }

Init ==
    /\ \E cfg \in SingleConfigs : Constructed(cfg)
    /\ BaseIdle

Spec == Init /\ [][Next]_vars

InitFleet ==
    /\ \E cfg \in FleetConfigs : Constructed(cfg)
    /\ BaseIdle

SpecFleet == InitFleet /\ [][Next]_vars

-----------------------------------------------------------------------------
(* Properties *)

\* the fixed-frame transform of the vehicle's current position and of
\* (heading + modelHeadingOffset, pitch, roll)
CurrentTransform(v) ==
    HeadingPitchRollToFixedFrame(
        position[v],
        [heading |-> hpRoll[v].heading + ModelHeadingOffset(v),
         pitch |-> hpRoll[v].pitch,
         roll |-> hpRoll[v].roll])

\* C1: whenever a vehicle holds a model primitive, the primitive's model matrix
\* is the fixed-frame transform of the vehicle's current position and of
\* (heading + modelHeadingOffset, pitch, roll).
C1_ModelMatrixSynchronized ==
    \A v \in Vehicles :
        primitive[v] # NULL =>
            models[primitive[v]].modelMatrix = CurrentTransform(v)

\* C2 as claimed: once the ready handler has run, the model the vehicle holds
\* has every override the config gives: color, colorBlendMode and
\* colorBlendAmount each equal the configured value, whichever of the others
\* are present.
C2_EveryOverrideApplied ==
    (lastRun.handler = "onModelReady" /\ lastRun.primitive # NULL) =>
        LET cfg == config[lastRun.vehicle]
            a == models[lastRun.primitive].appearance
        IN  /\ IsSome(cfg.modelColor) => a.color = cfg.modelColor
            /\ IsSome(cfg.modelColorBlendMode) =>
                   a.colorBlendMode = Get(cfg.modelColorBlendMode)
            /\ IsSome(cfg.modelColorBlendAmount) =>
                   a.colorBlendAmount = Get(cfg.modelColorBlendAmount)

\* C2 as amended: once the ready handler has run, the model the vehicle holds
\* has the configured color when the config gives one, and then also the
\* configured blend mode and blend amount when the config gives them; when
\* the config gives no color, color, blend mode and blend amount are the
\* model's defaults, whatever blend mode or amount the config gives.
C2_OverridesAppliedWithColor ==
    (lastRun.handler = "onModelReady" /\ lastRun.primitive # NULL) =>
        LET cfg == config[lastRun.vehicle]
            a == models[lastRun.primitive].appearance
        IN  IF IsSome(cfg.modelColor)
            THEN /\ a.color = cfg.modelColor
                 /\ IsSome(cfg.modelColorBlendMode) =>
                        a.colorBlendMode = Get(cfg.modelColorBlendMode)
                 /\ ~IsSome(cfg.modelColorBlendMode) =>
                        a.colorBlendMode = DefaultAppearance.colorBlendMode
                 /\ IsSome(cfg.modelColorBlendAmount) =>
                        a.colorBlendAmount = Get(cfg.modelColorBlendAmount)
                 /\ ~IsSome(cfg.modelColorBlendAmount) =>
                        a.colorBlendAmount = DefaultAppearance.colorBlendAmount
            ELSE a = DefaultAppearance

\* C2 is about a ready handler that applied a color and a blend amount of 0
\* and found no blend mode to apply
C2_Witness ==
    /\ lastRun.handler = "onModelReady"
    /\ lastRun.primitive # NULL
    /\ IsSome(config[lastRun.vehicle].modelColor)
    /\ config[lastRun.vehicle].modelColorBlendAmount = Some(0)
    /\ models[lastRun.primitive].appearance.colorBlendAmount = 0
    /\ models[lastRun.primitive].appearance.colorBlendMode = "HIGHLIGHT"

\* the nodes reachable from the root through arrays of children
RECURSIVE ReachableFrom(_, _)
ReachableFrom(g, found) ==
    LET more == { c \in DOMAIN g.nodes :
                    \E n \in found :
                        /\ g.nodes[n].childrenIsArray
                        /\ \E k \in DOMAIN g.nodes[n].children :
                               g.nodes[n].children[k] = c }
    IN  IF more \subseteq found THEN found ELSE ReachableFrom(g, found \cup more)
Reachable(g) == ReachableFrom(g, {g.root})

\* the lower-cased name contains 'tail', 'fin', 'vertical' or 'stabilizer'
TailWords ==
    { <<"t", "a", "i", "l">>, <<"f", "i", "n">>,
      <<"v", "e", "r", "t", "i", "c", "a", "l">>,
      <<"s", "t", "a", "b", "i", "l", "i", "z", "e", "r">> }
NamesTailPart(name) ==
    \E w \in TailWords : Includes(ToLowerCase(Chars(name)), w)

\* a colour moved 20% towards white
TowardsWhite(c) == [i \in 1..4 |-> c[i] + (ColorUnit - c[i]) \div 5]

\* the materials of node n in the graph g, as a set of <<index, material>>
MaterialsOf(g, n) ==
    { <<i, Get(g.nodes[n].primitives[i])>> :
        i \in { k \in DOMAIN g.nodes[n].primitives : IsSome(g.nodes[n].primitives[k]) } }

LiveryFailed ==
    /\ lastRun.handler = "livery"
    /\ lastRun.outcome \in {"noPrimitive", "noSceneGraph", "threw"}

\* C4: when the livery pass finds no primitive, no scene graph or no root, or
\* the traversal throws, no error leaves the callback, the vehicle's position,
\* orientation, readiness and primitive are unchanged, and the color, blend
\* mode and blend amount of every model are still in place.
C4_LiveryFailsSilently ==
    [][LiveryFailed' =>
          /\ uncaught' = uncaught
          /\ position' = position
          /\ hpRoll' = hpRoll
          /\ isReady' = isReady
          /\ primitive' = primitive
          /\ \A m \in DOMAIN models :
                 models'[m].appearance = models[m].appearance]_vars

\* C4 is about a traversal that threw half way on a model whose color the
\* config had overridden
C4_Witness ==
    /\ lastRun.handler = "livery"
    /\ lastRun.outcome = "threw"
    /\ lastRun.visited # {}
    /\ models[lastRun.model].sceneGraph # Get(lastRun.before)
    /\ IsSome(models[lastRun.model].appearance.color)

\* C5: isModelReady() is false until a ready event of the vehicle has fired;
\* onModelReady observes a vehicle that is ready and whose primitive already
\* has the appearance the listener leaves it with (the configured color when
\* there is one); and it is the ready event of a loaded model of the vehicle
\* that invokes it, never a failed load.
C5_ReadinessOrdering ==
    /\ \A v \in Vehicles :
           isReady[v] =>
               \E m \in DOMAIN models : models[m].owner = v /\ models[m].readyFired
    /\ lastRun.handler = "onModelReady" =>
           /\ lastRun.isReady
           /\ isReady[lastRun.vehicle]
           /\ models[lastRun.model].phase = "loaded"
           /\ models[lastRun.model].owner = lastRun.vehicle
           /\ lastRun.primitive # NULL =>
                  /\ lastRun.appearance = models[lastRun.primitive].appearance
                  /\ IsSome(config[lastRun.vehicle].modelColor) =>
                         lastRun.appearance.color = config[lastRun.vehicle].modelColor
    /\ \A m \in DOMAIN models : models[m].phase = "failed" => ~models[m].readyFired

\* C5 is about a hook call that saw the configured color on its primitive,
\* after another load of the same vehicle had failed
C5_Witness ==
    /\ lastRun.handler = "onModelReady"
    /\ lastRun.primitive = lastRun.model
    /\ IsSome(lastRun.appearance.color)
    /\ \E m \in DOMAIN models : models[m].phase = "failed"

\* the last character of a non-empty string is '/'
EndsWithSlash(s) == Len(s) > 0 /\ s[Len(s)] = "/"

\* C6: the base is '/' when VITE_BASE_PATH is unset or empty; otherwise it is
\* VITE_BASE_PATH itself when that ends with '/', and VITE_BASE_PATH with one
\* '/' appended when it does not. So the base always ends with '/', and a
\* normalized base given back as VITE_BASE_PATH comes out unchanged.
C6_BasePath ==
    /\ pc \in {"built", "rebuilt"} =>
           /\ EndsWithSlash(base)
           /\ IF env = None \/ env = Some(<<>>)
              THEN base = <<"/">>
              ELSE IF EndsWithSlash(Get(env))
                   THEN base = Get(env)
                   ELSE base = Append(Get(env), "/")
    /\ pc = "rebuilt" => base = Get(env)

\* C6 is about a path that already ended with '/', built and built again
C6_Witness ==
    /\ pc = "rebuilt"
    /\ Len(base) = MaxLen
    /\ base # <<"/", "/", "/">>
    /\ SubSeq(base, Len(base) - 1, Len(base)) = <<"/", "/">>

\* C7: once destroy() has returned, none of the vehicle's models is in the
\* scene's primitives and isModelReady() is false, whatever was pending.
C7_DestroyIsFinal ==
    \A v \in Vehicles :
        destroyed[v] =>
            /\ ~isReady[v]
            /\ \A m \in DOMAIN models : models[m].owner = v => ~InScene(models[m])

\* C8: the model matrix initialize() hands to the loader is the transform of
\* the calling vehicle's own position and orientation at the call, and a
\* pending load keeps it, whatever the shared scratch object held before.
C8_InitializeUsesOwnState ==
    lastRun.handler = "initialize" =>
        /\ models[lastRun.model].owner = lastRun.vehicle
        /\ models[lastRun.model].phase = "loading"
        /\ models[lastRun.model].modelMatrix = CurrentTransform(lastRun.vehicle)

\* C8 is about an initialize() that overlaps the pending initialize() of
\* another vehicle whose state differs
C8_Witness ==
    /\ lastRun.handler = "initialize"
    /\ \E m \in DOMAIN models :
           /\ models[m].owner # lastRun.vehicle
           /\ models[m].phase = "loading"
           /\ models[m].modelMatrix # models[lastRun.model].modelMatrix
           /\ CurrentTransform(models[m].owner) # models[m].modelMatrix

====
